---- MODULE Spec2Model ----
(***************************************************************************)
(* Document upload service: the ingestion path (create_document and the    *)
(* upload endpoint), download, delete, the RabbitMQ publisher and the      *)
(* worker's consume loop.                                                  *)
(*                                                                         *)
(* Spec        the API process: concurrent requests that suspend at their  *)
(*             awaits, over the documents collection, the upload           *)
(*             directory, the MinIO bucket and the broker queue.           *)
(* WorkerSpec  the worker process and the broker: queue declaration,       *)
(*             delivery, the callback, the stop signal.                    *)
(***************************************************************************)
EXTENDS Naturals, Sequences, FiniteSets, TLC

VARIABLES
    documents,      \* db.documents: the set of stored records
    disk,           \* UPLOAD_DIR: file path -> bytes
    objects,        \* the MinIO bucket: object name -> bytes
    mq_channel,     \* mq.channel of the API process: "None" | "open" | "closed"
    queue,          \* the broker queue: message bodies ready for delivery
    req,            \* the requests in flight, one per slot
    response,       \* the response a handler returned, until it is sent
    queue_args,     \* how the queue was declared: "undeclared" | "plain" | "dlx"
    wpc,            \* the worker's position
    cur,            \* the delivery the callback is handling
    next_tag,       \* the delivery tag the channel hands out next
    settled,        \* the basic_ack / basic_nack calls the callback made
    handled,        \* delivery tags whose callback returned
    dead_letter,    \* bodies routed to the dead-letter destination
    discarded,      \* bodies the broker dropped
    stop_signal     \* the KeyboardInterrupt was raised

apivars == <<documents, disk, objects, mq_channel, req, response>>
workervars == <<queue_args, wpc, cur, next_tag, settled, handled, dead_letter,
                discarded, stop_signal>>
vars == <<documents, disk, objects, mq_channel, queue, req, response,
          queue_args, wpc, cur, next_tag, settled, handled, dead_letter,
          discarded, stop_signal>>

----------------------------------------------------------------------------
(* Bounds *)

MaxQueue == 1        \* messages the broker queue holds
NumDocIds == 1       \* distinct values generate_document_id returns
MaxDeliveries == 3   \* deliveries the worker receives

(* Program constants *)

MAX_FILE_SIZE == 10485760
MINIO_BUCKET == "documents"
UPLOAD_DIR == "uploads"
ALLOWED_EXTENSIONS == {".pdf", ".txt", ".json"}
ALLOWED_MIME_TYPES == {"application/pdf", "text/plain", "application/json", "text/json"}

\* Python's Optional: None is the empty tuple, a value x that is set is <<x>>.
None == <<>>
Some(x) == <<x>>

----------------------------------------------------------------------------
(* Inputs *)

Slots == {"r1", "r2"}
\* The values uuid.uuid4() returns.
DocIds == 1..NumDocIds

\* File contents: the bytes, their length, whether they decode as UTF-8, and what
\* json.loads makes of the decoded text.
JsonAB == [bytes |-> "{\"a\":1,\"b\":2}", len |-> 13, utf8 |-> TRUE,
           json |-> "object", keys |-> 2, words |-> 1, chars |-> 13]
NotJson == [bytes |-> "hello world", len |-> 11, utf8 |-> TRUE,
            json |-> "invalid", keys |-> 0, words |-> 2, chars |-> 11]
Latin1 == [bytes |-> "{\"a\": \"caf\\xe9\"}", len |-> 14, utf8 |-> FALSE,
           json |-> "invalid", keys |-> 0, words |-> 0, chars |-> 0]
TooLarge == [bytes |-> "x * 10485761", len |-> MAX_FILE_SIZE + 1, utf8 |-> TRUE,
             json |-> "invalid", keys |-> 0, words |-> 1, chars |-> MAX_FILE_SIZE + 1]
Contents == {JsonAB, NotJson, Latin1, TooLarge}

Filenames == {"a.JSON", "a.exe"}

\* What libmagic answers for the bytes ("MagicError": it raised).
Sniffs == {"application/json", "application/octet-stream", "MagicError"}
\* The Content-Type the client declared.
Declared == {None, Some("application/json")}

----------------------------------------------------------------------------
(* app/utils.py *)

\* Path(filename).suffix
Suffix(filename) ==
    CASE filename = "a.txt" -> ".txt"
      [] filename = "a.JSON" -> ".JSON"
      [] filename = "a.json" -> ".json"
      [] filename = "a.pdf" -> ".pdf"
      [] filename = "a.exe" -> ".exe"
      [] OTHER -> ""

\* str.lower() on a suffix
Lower(ext) ==
    CASE ext = ".JSON" -> ".json"
      [] ext = ".TXT" -> ".txt"
      [] ext = ".PDF" -> ".pdf"
      [] OTHER -> ext

detect_mime_type(sniff, fallback) ==
    IF sniff # "MagicError" THEN sniff
    ELSE IF fallback # None THEN fallback[1]
    ELSE "application/octet-stream"

\* validate_file_type with the MIME type looked at before the extension.
validate_file_type_mime_first(filename, mime_type) ==
    IF mime_type \notin ALLOWED_MIME_TYPES
    THEN [is_valid |-> FALSE, error |-> "MIME type not allowed"]
    ELSE IF Lower(Suffix(filename)) \notin ALLOWED_EXTENSIONS
    THEN [is_valid |-> FALSE, error |-> "File extension not allowed"]
    ELSE [is_valid |-> TRUE, error |-> ""]

validate_file_type(filename, mime_type) ==
    IF Lower(Suffix(filename)) \notin ALLOWED_EXTENSIONS
    THEN [is_valid |-> FALSE, error |-> "File extension not allowed"]
    ELSE IF mime_type \notin ALLOWED_MIME_TYPES
    THEN [is_valid |-> FALSE, error |-> "MIME type not allowed"]
    ELSE [is_valid |-> TRUE, error |-> ""]

calculate_file_hash(content) == <<"sha256", content.bytes>>

FilePath(document_id, filename) == <<UPLOAD_DIR, document_id, "_", filename>>

ObjectName(document_id, filename) == <<document_id, "/", filename>>

\* A mapping with key k set to v, and with key k removed.
Put(f, k, v) == [x \in DOMAIN f \cup {k} |-> IF x = k THEN v ELSE f[x]]
Remove(f, k) == [x \in DOMAIN f \ {k} |-> f[x]]

\* save_file that swallows the error of the write and returns the path.
save_file_error_swallowed(files, document_id, filename, content, ok) ==
    IF ok
    THEN [raised |-> FALSE,
          files |-> Put(files, FilePath(document_id, filename), content.bytes)]
    ELSE [raised |-> FALSE, files |-> files]

\* save_file: open(file_path, "wb") and write. ok = FALSE: open raises OSError and
\* the directory is as it was.
save_file(files, document_id, filename, content, ok) ==
    IF ok
    THEN [raised |-> FALSE,
          files |-> Put(files, FilePath(document_id, filename), content.bytes)]
    ELSE [raised |-> TRUE, files |-> files]

NoProcessing ==
    [word_count |-> None, character_count |-> None, page_count |-> None,
     json_keys_count |-> None, json_structure_valid |-> None,
     content_preview |-> None]

\* The bytes of the model's inputs are no PDF: PdfReader raises, caught inside.
process_pdf_file(content) ==
    [raised |-> FALSE,
     fields |-> [NoProcessing EXCEPT !.page_count = Some(0), !.word_count = Some(0),
                                     !.character_count = Some(0),
                                     !.content_preview = Some("Error processing PDF")]]

process_text_file(content) ==
    IF content.utf8
    THEN [raised |-> FALSE,
          fields |-> [NoProcessing EXCEPT !.word_count = Some(content.words),
                                          !.character_count = Some(content.chars),
                                          !.content_preview = Some(content.bytes)]]
    ELSE [raised |-> FALSE,
          fields |-> [NoProcessing EXCEPT !.word_count = Some(0),
                                          !.character_count = Some(0),
                                          !.content_preview =
                                              Some("Error: Unable to decode text file")]]

\* file_content.decode('utf-8') is inside the try, but only json.JSONDecodeError
\* is caught: a UnicodeDecodeError leaves the function.
process_json_file(content) ==
    IF ~content.utf8 THEN [raised |-> TRUE, fields |-> NoProcessing]
    ELSE IF content.json = "invalid"
    THEN [raised |-> FALSE,
          fields |-> [NoProcessing EXCEPT !.json_structure_valid = Some(FALSE),
                                          !.content_preview =
                                              Some("Error: Invalid JSON format")]]
    ELSE [raised |-> FALSE,
          fields |-> [NoProcessing EXCEPT
                         !.json_keys_count =
                             IF content.json = "object" THEN Some(content.keys) ELSE None,
                         !.json_structure_valid = Some(TRUE),
                         !.content_preview = Some(content.json)]]

process_file_content(filename, content) ==
    LET file_ext == Lower(Suffix(filename)) IN
    CASE file_ext = ".pdf" -> process_pdf_file(content)
      [] file_ext = ".txt" -> process_text_file(content)
      [] file_ext = ".json" -> process_json_file(content)
      [] OTHER -> [raised |-> FALSE,
                   fields |-> [NoProcessing EXCEPT
                                  !.content_preview = Some("Unsupported file type")]]

----------------------------------------------------------------------------
(* app/storage.py *)

\* storage.client once connect_to_storage has returned: startup fails otherwise.
storage_client == "Minio"

\* outcome: what the store answers ("ok", "S3Error", or another error).
put_object(bucket, object_name, content, outcome) ==
    IF storage_client = "None" THEN [raised |-> TRUE, bucket |-> bucket]
    ELSE IF outcome = "ok"
    THEN [raised |-> FALSE, bucket |-> Put(bucket, object_name, content.bytes)]
    ELSE [raised |-> TRUE, bucket |-> bucket]

\* The store answers a read of a missing object with an S3Error.
get_object_stream(bucket, object_name, outcome) ==
    IF storage_client = "None" THEN [raised |-> TRUE, data |-> None]
    ELSE IF outcome = "ok" /\ object_name \in DOMAIN bucket
    THEN [raised |-> FALSE, data |-> Some(bucket[object_name])]
    ELSE [raised |-> TRUE, data |-> None]

\* "NoSuchKey" is answered with False; any other error is raised again.
remove_object(bucket, object_name, outcome) ==
    IF storage_client = "None" THEN [raised |-> TRUE, bucket |-> bucket]
    ELSE IF outcome = "ok"
    THEN [raised |-> FALSE, bucket |-> Remove(bucket, object_name)]
    ELSE IF outcome = "NoSuchKey"
    THEN [raised |-> FALSE, bucket |-> bucket]
    ELSE [raised |-> TRUE, bucket |-> bucket]

----------------------------------------------------------------------------
(* app/database.py: the documents collection *)

\* ensure_indexes: create_index("document_id", unique=True)
unique_document_id == TRUE

\* insert_one on a collection whose document_id index is not unique.
insert_one_no_unique_index(coll, doc) ==
    [raised |-> FALSE, coll |-> coll \cup {doc}]

insert_one(coll, doc) ==
    IF unique_document_id /\ \E d \in coll : d.document_id = doc.document_id
    THEN [raised |-> TRUE, coll |-> coll]
    ELSE [raised |-> FALSE, coll |-> coll \cup {doc}]

find_one(coll, document_id) ==
    IF \E d \in coll : d.document_id = document_id
    THEN Some(CHOOSE d \in coll : d.document_id = document_id)
    ELSE None

\* delete_one that reports one deleted record whether or not it found one.
delete_one_always_counts(coll, document_id) ==
    [deleted_count |-> 1, coll |-> {d \in coll : d.document_id # document_id}]

delete_one(coll, document_id) ==
    IF \E d \in coll : d.document_id = document_id
    THEN [deleted_count |-> 1,
          coll |-> coll \ {CHOOSE d \in coll : d.document_id = document_id}]
    ELSE [deleted_count |-> 0, coll |-> coll]

----------------------------------------------------------------------------
(* app/messaging.py *)

\* json.dumps({"type": ..., "payload": ...}).encode('utf-8'); of the payload the
\* model keeps document_id.
EncodeEvent(event_type, payload) ==
    [utf8 |-> TRUE, json |-> "object", type |-> Some(event_type),
     payload |-> Some([kind |-> "dict", document_id |-> Some(payload.document_id)])]

\* outcome: what basic_publish does on an open channel ("ok" or an AMQP error).
publish_event(channel, q, event_type, payload, outcome) ==
    IF channel # "open" THEN [raised |-> TRUE, q |-> q]
    ELSE IF outcome = "ok"
    THEN [raised |-> FALSE, q |-> Append(q, EncodeEvent(event_type, payload))]
    ELSE [raised |-> TRUE, q |-> q]

----------------------------------------------------------------------------
(* app/services.py and main.py: the requests *)

\* replaced: which stored copies of a record that was in the collection the
\* request has put other bytes over ("file_path", "storage_key").
Idle == [op |-> "idle", pc |-> "idle", doc |-> None, trace |-> <<>>, replaced |-> {}]

NoResponse ==
    [op |-> "none", status |-> 0, ok |-> FALSE, detail |-> "", document_id |-> None,
     filename |-> "", file_size |-> 0, mime_type |-> "", body |-> None,
     trace |-> <<>>, replaced |-> {}]

\* A write that turned store before into store after has put other bytes where a
\* record of the collection keeps its content (field: "file_path" or
\* "storage_key", at: the path or the Some(object name) written to).
Replaces(coll, field, at, before, after) ==
    LET key == IF field = "storage_key" THEN at[1] ELSE at IN
    /\ \E d \in coll : d[field] = at
    /\ key \in DOMAIN before
    /\ key \in DOMAIN after
    /\ after[key] # before[key]

\* StorageFields without the try: an error of the store leaves create_document.
StorageFields_put_error_raised(put, object_name) ==
    IF put.raised
    THEN [raised |-> TRUE, storage_bucket |-> None, storage_key |-> None]
    ELSE [raised |-> FALSE, storage_bucket |-> Some(MINIO_BUCKET),
          storage_key |-> Some(object_name)]

\* StorageFields with storage_bucket assigned before put_object is called and not
\* reset in the except branch.
StorageFields_bucket_kept(put, object_name) ==
    IF put.raised
    THEN [raised |-> FALSE, storage_bucket |-> Some(MINIO_BUCKET), storage_key |-> None]
    ELSE [raised |-> FALSE, storage_bucket |-> Some(MINIO_BUCKET),
          storage_key |-> Some(object_name)]

\* create_document, the try around put_object: an error of the store is swallowed
\* and both storage fields stay None.
StorageFields(put, object_name) ==
    IF put.raised
    THEN [raised |-> FALSE, storage_bucket |-> None, storage_key |-> None]
    ELSE [raised |-> FALSE, storage_bucket |-> Some(MINIO_BUCKET),
          storage_key |-> Some(object_name)]

DocumentMetadata(document_id, filename, content, mime_type, stored, fields) ==
    [document_id |-> document_id,
     filename |-> filename,
     original_filename |-> filename,
     file_size |-> content.len,
     file_type |-> Lower(Suffix(filename)),
     mime_type |-> mime_type,
     file_hash |-> calculate_file_hash(content),
     file_path |-> FilePath(document_id, filename),
     storage_bucket |-> stored.storage_bucket,
     storage_key |-> stored.storage_key,
     processing |-> fields]

\* PublishAttempt without the try: an error of publish_event reaches the outer
\* except and becomes status 500.
PublishAttempt_error_raised(pub) == [raised |-> pub.raised, q |-> pub.q]

\* upload_document, the try around publish_event: an error is logged, not raised.
PublishAttempt(pub) == [raised |-> FALSE, q |-> pub.q]

\* CheckUpload with the type check before the size check.
CheckUpload_type_first(content, valid) ==
    IF ~valid.is_valid
    THEN [status |-> 400, detail |-> valid.error]
    ELSE IF content.len > MAX_FILE_SIZE
    THEN [status |-> 413, detail |-> "File size exceeds maximum"]
    ELSE [status |-> 0, detail |-> ""]

\* create_document's two checks, in their order: the HTTPException it raises, or
\* status 0 when the upload passes both.
CheckUpload(content, valid) ==
    IF content.len > MAX_FILE_SIZE
    THEN [status |-> 413, detail |-> "File size exceeds maximum"]
    ELSE IF ~valid.is_valid
    THEN [status |-> 400, detail |-> valid.error]
    ELSE [status |-> 0, detail |-> ""]

\* upload_document when create_document raises HTTPException: the size check
\* comes first, then the type check. Nothing was generated or written yet.
UploadRejected(filename, content, declared, sniff) ==
    /\ response = NoResponse
    /\ \E s \in Slots : req[s].pc = "idle"
    /\ LET mime_type == detect_mime_type(sniff, declared)
           valid == validate_file_type(filename, mime_type)
           reply == [NoResponse EXCEPT !.op = "upload", !.filename = filename,
                                       !.file_size = content.len]
           check == CheckUpload(content, valid)
       IN  /\ check.status # 0
           /\ response' = [reply EXCEPT !.status = check.status,
                                        !.detail = check.detail,
                                        !.mime_type = IF check.status = 400
                                                      THEN mime_type ELSE ""]
    /\ UNCHANGED <<documents, disk, objects, mq_channel, queue, req>>
    /\ UNCHANGED workervars

\* upload_document past both checks, up to the await of insert_one:
\* generate_document_id, save_file, process_file_content, put_object. An error
\* of save_file or process_file_content ends the request with status 500.
UploadAccepted(s, filename, content, declared, sniff, document_id, disk_ok, put_outcome) ==
    /\ response = NoResponse
    /\ req[s].pc = "idle"
    /\ LET mime_type == detect_mime_type(sniff, declared)
           valid == validate_file_type(filename, mime_type)
           saved == save_file(disk, document_id, filename, content, disk_ok)
           processed == process_file_content(filename, content)
           object_name == ObjectName(document_id, filename)
           put == put_object(objects, object_name, content, put_outcome)
           stored == StorageFields(put, object_name)
           document == DocumentMetadata(document_id, filename, content, mime_type,
                                        stored, processed.fields)
           replaced_file ==
               IF Replaces(documents, "file_path", FilePath(document_id, filename),
                           disk, saved.files)
               THEN {"file_path"} ELSE {}
           replaced_object ==
               IF Replaces(documents, "storage_key", Some(object_name),
                           objects, put.bucket)
               THEN {"storage_key"} ELSE {}
           reply == [NoResponse EXCEPT !.op = "upload", !.status = 500,
                                       !.filename = filename,
                                       !.file_size = content.len,
                                       !.mime_type = mime_type,
                                       !.document_id = Some(document_id),
                                       !.replaced = replaced_file]
       IN  /\ CheckUpload(content, valid).status = 0
           /\ IF saved.raised
              THEN /\ response' = [reply EXCEPT !.detail = "save_file",
                                                !.trace = <<"save_file!">>,
                                                !.replaced = {}]
                   /\ UNCHANGED <<documents, disk, objects, req>>
              ELSE IF processed.raised
              THEN /\ disk' = saved.files
                   /\ response' = [reply EXCEPT !.detail = "process_file_content",
                                                !.trace = <<"save_file",
                                                            "process_file_content!">>]
                   /\ UNCHANGED <<documents, objects, req>>
              ELSE IF stored.raised
              THEN /\ disk' = saved.files
                   /\ objects' = put.bucket
                   /\ response' = [reply EXCEPT !.detail = "put_object",
                                                !.replaced = replaced_file
                                                               \cup replaced_object,
                                                !.trace = <<"save_file",
                                                            "process_file_content",
                                                            "put_object!">>]
                   /\ UNCHANGED <<documents, req>>
              ELSE /\ disk' = saved.files
                   /\ objects' = put.bucket
                   /\ req' = [req EXCEPT ![s] =
                                 [op |-> "upload", pc |-> "insert",
                                  doc |-> Some(document),
                                  trace |-> <<"save_file", "process_file_content",
                                              IF put.raised THEN "put_object!"
                                                            ELSE "put_object">>,
                                  replaced |-> replaced_file \cup replaced_object]]
                   /\ response' = NoResponse
                   /\ UNCHANGED documents
    /\ UNCHANGED <<mq_channel, queue>>
    /\ UNCHANGED workervars

\* UploadInsert with the event published before insert_one is awaited.
UploadInsert_publishes_first(s) ==
    /\ response = NoResponse
    /\ req[s].op = "upload" /\ req[s].pc = "insert"
    /\ Len(queue) < MaxQueue
    /\ LET document == req[s].doc[1]
           inserted == insert_one(documents, document)
           pub == publish_event(mq_channel, queue, "document.uploaded",
                                [document_id |-> document.document_id], "ok")
       IN  /\ queue' = pub.q
           /\ documents' = inserted.coll
           /\ IF inserted.raised
              THEN /\ response' = [NoResponse EXCEPT
                                      !.op = "upload", !.status = 500,
                                      !.detail = "insert_one",
                                      !.document_id = Some(document.document_id),
                                      !.filename = document.filename,
                                      !.file_size = document.file_size,
                                      !.mime_type = document.mime_type,
                                      !.trace = Append(req[s].trace, "insert_one!"),
                                      !.replaced = req[s].replaced]
                   /\ req' = [req EXCEPT ![s] = Idle]
              ELSE /\ req' = [req EXCEPT ![s].pc = "publish",
                                         ![s].trace = Append(@, "insert_one")]
                   /\ response' = NoResponse
    /\ UNCHANGED <<disk, objects, mq_channel>>
    /\ UNCHANGED workervars

\* create_document, await db.documents.insert_one: a DuplicateKeyError ends the
\* request with status 500.
UploadInsert(s) ==
    /\ response = NoResponse
    /\ req[s].op = "upload" /\ req[s].pc = "insert"
    /\ LET document == req[s].doc[1]
           inserted == insert_one(documents, document)
       IN  IF inserted.raised
           THEN /\ response' = [NoResponse EXCEPT
                                   !.op = "upload", !.status = 500,
                                   !.detail = "insert_one",
                                   !.document_id = Some(document.document_id),
                                   !.filename = document.filename,
                                   !.file_size = document.file_size,
                                   !.mime_type = document.mime_type,
                                   !.trace = Append(req[s].trace, "insert_one!"),
                                      !.replaced = req[s].replaced]
                /\ req' = [req EXCEPT ![s] = Idle]
                /\ UNCHANGED documents
           ELSE /\ documents' = inserted.coll
                /\ req' = [req EXCEPT ![s].pc = "publish",
                                      ![s].trace = Append(@, "insert_one")]
                /\ response' = NoResponse
    /\ UNCHANGED <<disk, objects, mq_channel, queue>>
    /\ UNCHANGED workervars

\* upload_document after create_document returned: publish_event, then the
\* UploadResponse.
UploadPublish(s, outcome) ==
    /\ response = NoResponse
    /\ req[s].op = "upload" /\ req[s].pc = "publish"
    /\ outcome = "ok" => Len(queue) < MaxQueue
    /\ LET document == req[s].doc[1]
           pub == publish_event(mq_channel, queue, "document.uploaded",
                                [document_id |-> document.document_id], outcome)
           attempt == PublishAttempt(pub)
           reply == [NoResponse EXCEPT
                        !.op = "upload",
                        !.document_id = Some(document.document_id),
                        !.filename = document.filename,
                        !.file_size = document.file_size,
                        !.mime_type = document.mime_type,
                        !.replaced = req[s].replaced,
                        !.trace = Append(req[s].trace,
                                         IF pub.raised THEN "publish_event!"
                                                       ELSE "publish_event")]
       IN  /\ queue' = attempt.q
           /\ response' = IF attempt.raised
                           THEN [reply EXCEPT !.status = 500, !.detail = "publish_event"]
                           ELSE [reply EXCEPT !.status = 200, !.ok = TRUE,
                                              !.detail = "Document uploaded"]
           /\ req' = [req EXCEPT ![s] = Idle]
    /\ UNCHANGED <<documents, disk, objects, mq_channel>>
    /\ UNCHANGED workervars

\* delete_document, await get_document: False when there is no record.
DeleteBegin(s, document_id) ==
    /\ response = NoResponse
    /\ req[s].pc = "idle"
    /\ LET document == find_one(documents, document_id)
       IN  IF document = None
           THEN /\ response' = [NoResponse EXCEPT !.op = "delete", !.ok = FALSE,
                                                  !.detail = "get_document",
                                                  !.document_id = Some(document_id)]
                /\ UNCHANGED req
           ELSE /\ req' = [req EXCEPT ![s] = [op |-> "delete", pc |-> "cleanup",
                                              doc |-> document, trace |-> <<>>, replaced |-> {}]]
                /\ response' = NoResponse
    /\ UNCHANGED <<documents, disk, objects, mq_channel, queue>>
    /\ UNCHANGED workervars

\* os.path.exists(file_path), then os.remove(file_path): nothing to do when the
\* file is not there; ok is whether os.remove succeeds.
os_remove(files, file_path, ok) ==
    IF file_path \notin DOMAIN files THEN [raised |-> FALSE, files |-> files]
    ELSE IF ok THEN [raised |-> FALSE, files |-> Remove(files, file_path)]
    ELSE [raised |-> TRUE, files |-> files]

\* BestEffort without the try: the error leaves delete_document.
BestEffort_error_raised(raised) == raised

\* delete_document, the try/except Exception: pass around each cleanup call:
\* whether an error of the call leaves delete_document.
BestEffort(raised) == FALSE

\* delete_document between its awaits: remove_object when storage_key is set, then
\* os.remove when the file exists; an error of either is swallowed.
DeleteCleanup(s, remove_outcome, unlink_ok) ==
    /\ response = NoResponse
    /\ req[s].op = "delete" /\ req[s].pc = "cleanup"
    /\ LET document == req[s].doc[1]
           removed == IF document.storage_key # None
                      THEN remove_object(objects, document.storage_key[1], remove_outcome)
                      ELSE [raised |-> FALSE, bucket |-> objects]
           unlinked == os_remove(disk, document.file_path, unlink_ok)
           failed == [NoResponse EXCEPT !.op = "delete", !.status = 500,
                                        !.document_id = Some(document.document_id)]
       IN  IF BestEffort(removed.raised)
           THEN /\ objects' = removed.bucket
                /\ response' = [failed EXCEPT !.detail = "remove_object"]
                /\ req' = [req EXCEPT ![s] = Idle]
                /\ UNCHANGED disk
           ELSE IF BestEffort(unlinked.raised)
           THEN /\ objects' = removed.bucket
                /\ disk' = unlinked.files
                /\ response' = [failed EXCEPT !.detail = "os.remove"]
                /\ req' = [req EXCEPT ![s] = Idle]
           ELSE /\ objects' = removed.bucket
                /\ disk' = unlinked.files
                /\ req' = [req EXCEPT ![s].pc = "delete_one"]
                /\ response' = NoResponse
    /\ UNCHANGED <<documents, mq_channel, queue>>
    /\ UNCHANGED workervars

\* delete_document, await db.documents.delete_one: deleted_count > 0 is returned.
DeleteOne(s) ==
    /\ response = NoResponse
    /\ req[s].op = "delete" /\ req[s].pc = "delete_one"
    /\ LET document == req[s].doc[1]
           result == delete_one(documents, document.document_id)
       IN  /\ documents' = result.coll
           /\ response' = [NoResponse EXCEPT !.op = "delete",
                                             !.ok = (result.deleted_count > 0),
                                             !.detail = "delete_one",
                                             !.document_id = Some(document.document_id)]
           /\ req' = [req EXCEPT ![s] = Idle]
    /\ UNCHANGED <<disk, objects, mq_channel, queue>>
    /\ UNCHANGED workervars

\* download_document, await get_document: 404 when there is no record.
DownloadBegin(s, document_id) ==
    /\ response = NoResponse
    /\ req[s].pc = "idle"
    /\ LET document == find_one(documents, document_id)
       IN  IF document = None
           THEN /\ response' = [NoResponse EXCEPT !.op = "download", !.status = 404,
                                                  !.detail = "Document not found",
                                                  !.document_id = Some(document_id)]
                /\ UNCHANGED req
           ELSE /\ req' = [req EXCEPT ![s] = [op |-> "download", pc |-> "serve",
                                              doc |-> document, trace |-> <<>>, replaced |-> {}]]
                /\ response' = NoResponse
    /\ UNCHANGED <<documents, disk, objects, mq_channel, queue>>
    /\ UNCHANGED workervars

\* download_document after the lookup: the object when storage_key is set, the
\* local file otherwise.
DownloadServe(s, get_outcome) ==
    /\ response = NoResponse
    /\ req[s].op = "download" /\ req[s].pc = "serve"
    /\ LET document == req[s].doc[1]
           reply == [NoResponse EXCEPT !.op = "download",
                                       !.document_id = Some(document.document_id),
                                       !.filename = document.original_filename,
                                       !.mime_type = document.mime_type]
           obj == get_object_stream(objects, document.storage_key[1], get_outcome)
       IN  response' =
               IF document.storage_key # None
               THEN IF obj.raised
                    THEN [reply EXCEPT !.status = 404,
                                       !.detail = "Document object not found in storage",
                                       !.trace = <<"get_object_stream!">>]
                    ELSE [reply EXCEPT !.status = 200, !.ok = TRUE, !.body = obj.data,
                                       !.trace = <<"get_object_stream">>]
               ELSE IF document.file_path \notin DOMAIN disk
                    THEN [reply EXCEPT !.status = 404,
                                       !.detail = "Document file not found on disk"]
                    ELSE [reply EXCEPT !.status = 200, !.ok = TRUE,
                                       !.body = Some(disk[document.file_path]),
                                       !.trace = <<"FileResponse">>]
    /\ req' = [req EXCEPT ![s] = Idle]
    /\ UNCHANGED <<documents, disk, objects, mq_channel, queue>>
    /\ UNCHANGED workervars

\* The connection to the broker drops: mq.channel.is_open turns False.
ChannelClosed ==
    /\ response = NoResponse
    /\ mq_channel = "open"
    /\ mq_channel' = "closed"
    /\ response' = NoResponse
    /\ UNCHANGED <<documents, disk, objects, queue, req>>
    /\ UNCHANGED workervars

\* The response leaves the process: the handler has returned it (or raised its
\* HTTPException) and the next step of the event loop runs.
ResponseSent ==
    /\ response # NoResponse
    /\ response' = NoResponse
    /\ UNCHANGED <<documents, disk, objects, mq_channel, queue, req>>
    /\ UNCHANGED workervars

----------------------------------------------------------------------------

\* After the lifespan's startup: the collection, the directory and the bucket as
\* a fresh deployment has them; connect_to_rabbitmq may have failed (mq.channel
\* is None then).
Init ==
    /\ documents = {}
    /\ disk = <<>>
    /\ objects = <<>>
    /\ mq_channel \in {"None", "open"}
    /\ queue = <<>>
    /\ req = [s \in Slots |-> Idle]
    /\ response = NoResponse
    /\ queue_args = "undeclared"
    /\ wpc = "start"
    /\ cur = None
    /\ next_tag = 1
    /\ settled = {}
    /\ handled = {}
    /\ dead_letter = {}
    /\ discarded = {}
    /\ stop_signal = FALSE

Next ==
    \/ \E filename \in Filenames, content \in Contents, declared \in Declared,
          sniff \in Sniffs : UploadRejected(filename, content, declared, sniff)
    \/ \E s \in Slots, filename \in Filenames, content \in Contents,
          declared \in Declared, sniff \in Sniffs, document_id \in DocIds,
          disk_ok \in BOOLEAN, put_outcome \in {"ok", "S3Error"} :
            UploadAccepted(s, filename, content, declared, sniff, document_id,
                           disk_ok, put_outcome)
    \/ \E s \in Slots : UploadInsert(s)
    \/ \E s \in Slots, outcome \in {"ok", "AMQPError"} : UploadPublish(s, outcome)
    \/ \E s \in Slots, document_id \in DocIds : DeleteBegin(s, document_id)
    \/ \E s \in Slots, remove_outcome \in {"ok", "NoSuchKey", "S3Error"},
          unlink_ok \in BOOLEAN : DeleteCleanup(s, remove_outcome, unlink_ok)
    \/ \E s \in Slots : DeleteOne(s)
    \/ \E s \in Slots, document_id \in DocIds : DownloadBegin(s, document_id)
    \/ \E s \in Slots, get_outcome \in {"ok", "S3Error"} : DownloadServe(s, get_outcome)
    \/ ChannelClosed
    \/ ResponseSent

Spec == Init /\ [][Next]_vars

----------------------------------------------------------------------------
(* worker.py and the broker *)

\* Message bodies a publisher can put on the exchange: the event of an upload, and
\* bodies that are no {type, payload} envelope.
UploadedEvent == EncodeEvent("document.uploaded", [document_id |-> 1])
NotUtf8Body == [utf8 |-> FALSE, json |-> "invalid", type |-> None, payload |-> None]
NotJsonBody == [utf8 |-> TRUE, json |-> "invalid", type |-> None, payload |-> None]
JsonArrayBody == [utf8 |-> TRUE, json |-> "array", type |-> None, payload |-> None]
StringPayloadBody ==
    [utf8 |-> TRUE, json |-> "object", type |-> Some("document.uploaded"),
     payload |-> Some([kind |-> "str", document_id |-> None])]
Bodies == {UploadedEvent, NotUtf8Body, NotJsonBody, JsonArrayBody, StringPayloadBody}

\* The exchange "dlx_exchange" that celery_app.py names is declared nowhere.
dlx_exchange_declared == FALSE

\* json.loads(body.decode('utf-8')), then message.get("type") and
\* message.get("payload", {}): only a JSON object has .get.
DecodeEnvelope(body) ==
    IF ~body.utf8 THEN [raised |-> TRUE, error |-> "UnicodeDecodeError"]
    ELSE IF body.json = "invalid" THEN [raised |-> TRUE, error |-> "JSONDecodeError"]
    ELSE IF body.json # "object" THEN [raised |-> TRUE, error |-> "AttributeError"]
    ELSE [raised |-> FALSE, error |-> ""]

\* time.sleep(0.5), then payload.get('document_id'): a payload that is no dict
\* has no .get; a missing payload is {}.
ProcessPayload(body) ==
    IF body.payload # None /\ body.payload[1].kind # "dict"
    THEN [raised |-> TRUE, error |-> "AttributeError"]
    ELSE [raised |-> FALSE, error |-> ""]

\* A callback that acknowledges in a finally, whatever happened.
OnError_ack == "ack"

\* callback's except Exception: where an error in the try block continues.
OnError == "nack"

\* The requeue argument of the callback's basic_nack.
NackRequeue == FALSE

\* What the broker does with a message rejected without requeue: dead-lettered
\* when the queue was declared with a dead-letter exchange that exists, dropped
\* otherwise.
BrokerRejects(args) ==
    IF args = "dlx" /\ dlx_exchange_declared THEN "dead_letter" ELSE "discard"

\* A publisher publishes a body to the exchange; it is routed to the queue.
Publish(body) ==
    /\ queue_args # "undeclared"
    /\ Len(queue) < MaxQueue
    /\ queue' = Append(queue, body)
    /\ UNCHANGED apivars
    /\ UNCHANGED workervars

\* A celery worker of app/celery_app.py starts first and declares the queue with
\* x-dead-letter-exchange and x-dead-letter-routing-key.
CeleryDeclaresQueue ==
    /\ queue_args = "undeclared"
    /\ queue_args' = "dlx"
    /\ UNCHANGED <<wpc, cur, next_tag, settled, handled, dead_letter, discarded,
                   stop_signal>>
    /\ UNCHANGED queue
    /\ UNCHANGED apivars

\* main up to start_consuming: queue_declare(queue, durable=True) with no
\* arguments. A queue that exists with other arguments makes the broker close the
\* channel (PRECONDITION_FAILED) and main ends with that error.
WorkerStart ==
    /\ wpc = "start"
    /\ IF queue_args = "dlx"
       THEN wpc' = "failed" /\ UNCHANGED queue_args
       ELSE wpc' = "consuming" /\ queue_args' = "plain"
    /\ UNCHANGED <<cur, next_tag, settled, handled, dead_letter, discarded,
                   stop_signal>>
    /\ UNCHANGED queue
    /\ UNCHANGED apivars

\* The broker delivers the head of the queue and start_consuming calls callback.
Deliver ==
    /\ wpc = "consuming"
    /\ queue # <<>>
    /\ next_tag <= MaxDeliveries
    /\ cur' = Some([delivery_tag |-> next_tag, body |-> Head(queue)])
    /\ next_tag' = next_tag + 1
    /\ queue' = Tail(queue)
    /\ wpc' = "decode"
    /\ UNCHANGED <<queue_args, settled, handled, dead_letter, discarded, stop_signal>>
    /\ UNCHANGED apivars

\* callback: decoding the envelope.
CallbackDecode ==
    /\ wpc = "decode"
    /\ wpc' = IF DecodeEnvelope(cur[1].body).raised THEN OnError ELSE "process"
    /\ UNCHANGED <<queue_args, cur, next_tag, settled, handled, dead_letter,
                   discarded, stop_signal>>
    /\ UNCHANGED queue
    /\ UNCHANGED apivars

\* A callback that updates the stored record when it has processed the event.
CallbackProcess_updates_record ==
    /\ wpc = "process"
    /\ wpc' = IF ProcessPayload(cur[1].body).raised THEN OnError ELSE "ack"
    /\ documents' = {[d EXCEPT !.processing.content_preview = Some("completed")] :
                        d \in documents}
    /\ UNCHANGED <<queue_args, cur, next_tag, settled, handled, dead_letter,
                   discarded, stop_signal>>
    /\ UNCHANGED <<disk, objects, mq_channel, queue, req, response>>

\* callback: the simulated work.
CallbackProcess ==
    /\ wpc = "process"
    /\ wpc' = IF ProcessPayload(cur[1].body).raised THEN OnError ELSE "ack"
    /\ UNCHANGED <<queue_args, cur, next_tag, settled, handled, dead_letter,
                   discarded, stop_signal>>
    /\ UNCHANGED queue
    /\ UNCHANGED apivars

\* callback: ch.basic_ack(delivery_tag), and callback returns.
CallbackAck ==
    /\ wpc = "ack"
    /\ settled' = settled \cup {[delivery_tag |-> cur[1].delivery_tag, op |-> "ack",
                                  requeue |-> FALSE, body |-> cur[1].body]}
    /\ handled' = handled \cup {cur[1].delivery_tag}
    /\ cur' = None
    /\ wpc' = "consuming"
    /\ UNCHANGED <<queue_args, next_tag, dead_letter, discarded, stop_signal>>
    /\ UNCHANGED queue
    /\ UNCHANGED apivars

\* callback: ch.basic_nack(delivery_tag, requeue=False), and callback returns. The
\* broker requeues, dead-letters or drops the message.
CallbackNack ==
    /\ wpc = "nack"
    /\ LET m == [delivery_tag |-> cur[1].delivery_tag, body |-> cur[1].body]
           fate == IF NackRequeue THEN "requeue" ELSE BrokerRejects(queue_args)
       IN  /\ settled' = settled \cup {[delivery_tag |-> m.delivery_tag, op |-> "nack",
                                         requeue |-> NackRequeue, body |-> m.body]}
           /\ queue' = IF fate = "requeue" THEN Append(queue, m.body) ELSE queue
           /\ dead_letter' = IF fate = "dead_letter" THEN dead_letter \cup {m}
                                                      ELSE dead_letter
           /\ discarded' = IF fate = "discard" THEN discarded \cup {m} ELSE discarded
    /\ handled' = handled \cup {cur[1].delivery_tag}
    /\ cur' = None
    /\ wpc' = "consuming"
    /\ UNCHANGED <<queue_args, next_tag, stop_signal>>
    /\ UNCHANGED apivars

\* The stop signal: KeyboardInterrupt is raised where the worker is, in
\* start_consuming or inside callback (except Exception does not catch it); main
\* calls stop_consuming() and connection.close(). The broker requeues a delivery
\* that was not settled.
KeyboardInterrupt ==
    /\ wpc \in {"consuming", "decode", "process", "ack", "nack"}
    /\ stop_signal' = TRUE
    /\ wpc' = "stopped"
    /\ queue' = IF cur # None THEN <<cur[1].body>> \o queue ELSE queue
    /\ cur' = None
    /\ UNCHANGED <<queue_args, next_tag, settled, handled, dead_letter, discarded>>
    /\ UNCHANGED apivars

WorkerNext ==
    \/ \E body \in Bodies : Publish(body)
    \/ CeleryDeclaresQueue
    \/ WorkerStart
    \/ Deliver
    \/ CallbackDecode
    \/ CallbackProcess
    \/ CallbackAck
    \/ CallbackNack
    \/ KeyboardInterrupt

WorkerSpec == Init /\ [][WorkerNext]_vars

----------------------------------------------------------------------------
(* Properties of the API process (Spec) *)

InTrace(trace, step) == \E i \in 1..Len(trace) : trace[i] = step

UploadResponse == response.op = "upload"

\* A step in which the request of slot s leaves position pc.
Leaves(s, pc) == req[s].pc = pc /\ req'[s].pc # pc

\* C1 as claimed: an upload that passed validation, wrote its local file and
\* whose put_object failed returns success.
C1_AsClaimed ==
    (UploadResponse /\ InTrace(response.trace, "put_object!")) => response.status = 200

C1_SuccessUnlessDuplicate ==
    (UploadResponse /\ InTrace(response.trace, "put_object!")
        /\ ~InTrace(response.trace, "insert_one!")) => response.status = 200

C1_FileWritten ==
    \A s \in Slots :
        (req[s].pc = "idle" /\ req'[s].pc = "insert") =>
            LET d == req'[s].doc[1] IN
            /\ d.file_path \in DOMAIN disk'
            /\ <<"sha256", disk'[d.file_path]>> = d.file_hash
            /\ InTrace(req'[s].trace, "put_object!") =>
                   (d.storage_bucket = None /\ d.storage_key = None)

C1_RecordInserted ==
    \A s \in Slots :
        (Leaves(s, "insert") /\ InTrace(req[s].trace, "put_object!")) =>
            \/ /\ req'[s].pc = "publish"
               /\ req[s].doc[1] \in documents'
               /\ req[s].doc[1].storage_bucket = None
               /\ req[s].doc[1].storage_key = None
            \/ /\ req'[s].pc = "idle"
               /\ \E d \in documents : d.document_id = req[s].doc[1].document_id

\* C1 (amended): an upload that passes the size and type checks and writes its
\* local file reaches the insert even when put_object fails, with a record whose
\* storage_bucket and storage_key are None and whose file_path holds the uploaded
\* bytes; the insert is refused only when the document_id is already taken, and
\* otherwise the record is inserted and the upload returns 200.
C1_StoreFailureIsNotFatal ==
    /\ []C1_SuccessUnlessDuplicate
    /\ [][C1_FileWritten /\ C1_RecordInserted]_vars

C1_Witness ==
    /\ UploadResponse /\ response.status = 200
    /\ InTrace(response.trace, "put_object!")
    /\ \E d \in documents :
          /\ d.document_id = response.document_id[1]
          /\ d.storage_key = None
          /\ d.file_path \in DOMAIN disk

\* C2: once the record is inserted the upload returns 200 whatever publish_event
\* does (channel None, channel closed, an error while publishing), and the step
\* that publishes and responds leaves the collection as it is.
C2_PublishFailureIsNotFatal ==
    /\ []((UploadResponse /\ InTrace(response.trace, "insert_one"))
            => (response.status = 200 /\ response.ok))
    /\ [][\A s \in Slots : Leaves(s, "publish") =>
              (documents' = documents /\ response'.status = 200)]_vars

C2_Witness ==
    /\ UploadResponse /\ response.status = 200
    /\ InTrace(response.trace, "publish_event!")
    /\ mq_channel = "closed"
    /\ \E d \in documents : d.document_id = response.document_id[1]

\* C3: an upload longer than MAX_FILE_SIZE is answered 413 whatever its extension
\* and MIME type, and its request inserts no record, writes no file and no object
\* and publishes no event.
C3_TooLargeRejected ==
    /\ []((UploadResponse /\ response.file_size > MAX_FILE_SIZE)
            => (response.status = 413 /\ response.trace = <<>>))
    /\ [][(response' # NoResponse /\ response'.op = "upload"
               /\ response'.file_size > MAX_FILE_SIZE)
            => UNCHANGED <<documents, disk, objects, queue, req>>]_vars

C3_Witness ==
    /\ UploadResponse /\ response.status = 413
    /\ response.file_size = MAX_FILE_SIZE + 1
    /\ response.filename = "a.exe"
    /\ documents # {}

BadExtension(filename) == Lower(Suffix(filename)) \notin ALLOWED_EXTENSIONS

\* C4: an upload within the size limit whose lower-cased extension or whose
\* detected MIME type is not allowed is answered 400, with the extension's reason
\* when the extension is not allowed and the MIME type's reason otherwise, and its
\* request inserts no record, writes no file and no object and publishes no event.
C4_BadTypeRejected ==
    /\ []((UploadResponse /\ response.file_size <= MAX_FILE_SIZE
              /\ (BadExtension(response.filename)
                    \/ response.mime_type \notin ALLOWED_MIME_TYPES))
            => /\ response.status = 400
               /\ response.trace = <<>>
               /\ response.detail = IF BadExtension(response.filename)
                                     THEN "File extension not allowed"
                                     ELSE "MIME type not allowed")
    /\ [][(response' # NoResponse /\ response'.op = "upload"
               /\ response'.status = 400)
            => UNCHANGED <<documents, disk, objects, queue, req>>]_vars

C4_Witness ==
    /\ UploadResponse /\ response.status = 400
    /\ response.filename = "a.JSON"
    /\ response.mime_type = "application/octet-stream"
    /\ response.detail = "MIME type not allowed"

\* C5: every stored record has storage_bucket and storage_key both set or both
\* None, and a file_path.
C5_StorageFieldsPaired ==
    \A d \in documents :
        /\ (d.storage_bucket = None) <=> (d.storage_key = None)
        /\ d.file_path # None

C5_Witness ==
    /\ \E d \in documents : d.storage_bucket = None /\ d.storage_key = None
    /\ \E s \in Slots : req[s].pc = "insert" /\ req[s].doc[1].storage_key # None

C6_Unique ==
    \A d1, d2 \in documents : d1.document_id = d2.document_id => d1 = d2

\* C6: no two stored records share a document_id, whatever the interleaving of
\* uploads and deletes; an insert under a document_id that a stored record has is
\* refused and leaves the collection as it was.
C6_DocumentIdUnique ==
    /\ []C6_Unique
    /\ [][\A s \in Slots :
              (Leaves(s, "insert")
                 /\ \E d \in documents : d.document_id = req[s].doc[1].document_id)
              => (documents' = documents /\ response'.status = 500)]_vars

C6_Witness ==
    /\ UploadResponse /\ response.status = 500 /\ response.detail = "insert_one"
    /\ \E d \in documents :
          /\ d.document_id = response.document_id[1]
          /\ d.file_size # response.file_size
    /\ \E s \in Slots : req[s].op = "delete"

\* C10 as claimed: the download of a stored record answers not-found only when
\* the local file at file_path is missing too.
C10_AsClaimed ==
    (response.op = "download" /\ response.status = 404
        /\ response.detail # "Document not found")
    => FilePath(response.document_id[1], response.filename) \notin DOMAIN disk

----------------------------------------------------------------------------
(* Properties of the worker (WorkerSpec) *)

Delivered == 1..(next_tag - 1)

InCallback(tag) == cur # None /\ cur[1].delivery_tag = tag

Calls(tag) == {x \in settled : x.delivery_tag = tag}

\* A body that is no {type, payload} envelope (not UTF-8, not JSON, JSON that is
\* no object), or whose payload makes the processing raise.
Malformed(body) ==
    \/ ~body.utf8
    \/ body.json # "object"
    \/ body.payload # None /\ body.payload[1].kind # "dict"

\* C7 as claimed: for every delivery that callback was called with and is no
\* longer handling, callback made exactly one call, basic_ack or
\* basic_nack(requeue=False), and basic_ack only for a body that decoded and was
\* processed without error.
C7_AsClaimed ==
    \A tag \in Delivered :
        ~InCallback(tag) =>
            /\ Cardinality(Calls(tag)) = 1
            /\ \A x \in Calls(tag) :
                  /\ x.op = "nack" => ~x.requeue
                  /\ x.op = "ack" => ~Malformed(x.body)

C8_Settled ==
    /\ \A x \in settled :
          /\ x.op = "nack" => ~x.requeue
          /\ Malformed(x.body) => x.op = "nack"
    /\ ~stop_signal =>
          /\ \A tag \in Delivered : ~InCallback(tag) => Calls(tag) # {}
          /\ next_tag > 1 => wpc \in {"consuming", "decode", "process", "ack", "nack"}

\* C8: a body that cannot be decoded as an envelope, or whose processing raises,
\* is answered with basic_nack(requeue=False) and never with basic_ack; the
\* rejecting step puts nothing back on the queue and returns to the consume
\* loop; until the stop signal every delivery callback is done with is settled
\* and the loop is still running.
C8_MalformedNacked ==
    /\ []C8_Settled
    /\ [][(wpc = "nack" /\ wpc' # "nack" /\ ~stop_signal')
            => (queue' = queue /\ wpc' = "consuming")]_vars

C8_Witness ==
    /\ wpc = "consuming" /\ ~stop_signal
    /\ \E x, y \in settled :
          /\ x.body = NotJsonBody /\ x.op = "nack" /\ ~x.requeue
          /\ y.delivery_tag > x.delivery_tag /\ y.op = "ack"

\* C9 as claimed: every message callback rejected with requeue=False is in the
\* dead-letter destination and none was dropped.
C9_AsClaimed ==
    \A x \in settled :
        (x.op = "nack" /\ ~x.requeue) =>
            /\ [delivery_tag |-> x.delivery_tag, body |-> x.body] \in dead_letter
            /\ [delivery_tag |-> x.delivery_tag, body |-> x.body] \notin discarded

----------------------------------------------------------------------------
(* Properties of delete_document (Spec) *)

HasRecord(coll, document_id) == \E d \in coll : d.document_id = document_id

C11_NotFound ==
    (response.op = "delete") => find_one(documents, response.document_id[1]) = None

C11_UnknownId ==
    (response = NoResponse /\ response'.op = "delete"
        /\ response'.detail = "get_document")
    => /\ ~response'.ok
       /\ ~HasRecord(documents, response'.document_id[1])
       /\ UNCHANGED <<documents, disk, objects>>

C11_KnownId ==
    \A s \in Slots :
        /\ (req[s].pc = "idle" /\ req'[s].op = "delete")
              => HasRecord(documents, req'[s].doc[1].document_id)
        /\ Leaves(s, "cleanup") => req'[s].pc = "delete_one"
        /\ Leaves(s, "delete_one")
              => /\ ~HasRecord(documents', req[s].doc[1].document_id)
                 /\ response'.op = "delete"
                 /\ response'.ok <=> HasRecord(documents, req[s].doc[1].document_id)

\* C11: delete_document of an id that no record has returns False and leaves the
\* collection, the upload directory and the bucket as they are; a call that found
\* the record goes on to delete_one whatever remove_object and os.remove did, and
\* when it returns no record has that id, so that a lookup answers not-found.
C11_DeleteSemantics ==
    /\ []C11_NotFound
    /\ [][C11_UnknownId /\ C11_KnownId]_vars

C11_Witness ==
    /\ response.op = "delete" /\ response.ok /\ response.detail = "delete_one"
    /\ documents = {}
    /\ disk # <<>> /\ objects # <<>>

----------------------------------------------------------------------------
(* Properties of the content extraction (Spec) *)

\* C12 as claimed: no accepted upload ends because process_file_content raised,
\* whatever its bytes, and a record made from bytes that are no JSON has
\* json_structure_valid False and json_keys_count None.
C12_AsClaimed ==
    /\ UploadResponse => ~InTrace(response.trace, "process_file_content!")
    /\ \A d \in documents :
          (d.file_type = ".json" /\ d.file_hash # calculate_file_hash(JsonAB))
              => /\ d.processing.json_structure_valid = Some(FALSE)
                 /\ d.processing.json_keys_count = None

----------------------------------------------------------------------------
(* Properties of the worker's shutdown (WorkerSpec) *)

\* C13 as claimed: once the stop signal has arrived and main has closed the
\* connection, every delivery that callback was called with has been answered
\* with basic_ack or basic_nack.
C13_AsClaimed ==
    (stop_signal /\ wpc = "stopped") => \A tag \in Delivered : Calls(tag) # {}

----------------------------------------------------------------------------
(* list_documents: app/services.py and main.py *)

MaxRecords == 25     \* records the collection holds
MaxPage == 4         \* page numbers asked for
MaxPerPage == 100    \* Query(10, ge=1, le=100)

\* upload_timestamp of the i-th inserted record: all different, or equal in pairs
\* (two uploads within the same millisecond).
Stamp(scheme, i) == IF scheme = "distinct" THEN i ELSE (i + 1) \div 2

\* A collection of n records; id is the ObjectId, growing with each insert.
Repository(n, scheme) ==
    {[id |-> i, document_id |-> i, upload_timestamp |-> Stamp(scheme, i)] : i \in 1..n}

\* sort("upload_timestamp", -1): the index on upload_timestamp walked backwards,
\* records with the same timestamp in the order of the index entries.
Before(a, b) ==
    \/ a.upload_timestamp > b.upload_timestamp
    \/ a.upload_timestamp = b.upload_timestamp /\ a.id > b.id

RECURSIVE SortDesc(_)
SortDesc(coll) ==
    IF coll = {} THEN <<>>
    ELSE LET first == CHOOSE a \in coll : \A b \in coll \ {a} : Before(a, b)
         IN  <<first>> \o SortDesc(coll \ {first})

\* cursor.skip(n) and cursor.limit(n)
Skip(seq, n) == SubSeq(seq, n + 1, Len(seq))
Limit(seq, n) == SubSeq(seq, 1, IF n < Len(seq) THEN n ELSE Len(seq))

\* list_documents with skip = page * per_page.
list_documents_skip_page(coll, page, per_page) ==
    LET skip == page * per_page
        total == Cardinality(coll)
    IN  [documents |-> Limit(Skip(SortDesc(coll), skip), per_page), total |-> total]

\* DocumentService.list_documents: the cursor sorts, then skips, then limits.
list_documents(coll, page, per_page) ==
    LET skip == (page - 1) * per_page
        total == Cardinality(coll)
    IN  [documents |-> Limit(Skip(SortDesc(coll), skip), per_page), total |-> total]

\* math.ceil(total / per_page)
ceil(total, per_page) ==
    IF total % per_page = 0 THEN total \div per_page ELSE total \div per_page + 1

\* GET /documents: the DocumentListResponse.
ListDocuments(page, per_page) ==
    /\ response = NoResponse
    /\ LET listed == list_documents(documents, page, per_page)
       IN  response' = [op |-> "list", success |-> TRUE,
                        documents |-> listed.documents, total |-> listed.total,
                        page |-> page, per_page |-> per_page,
                        total_pages |-> ceil(listed.total, per_page)]
    /\ UNCHANGED <<documents, disk, objects, mq_channel, queue, req>>
    /\ UNCHANGED workervars

ListInit ==
    /\ \E n \in 0..MaxRecords, scheme \in {"distinct", "pairs"} :
          documents = Repository(n, scheme)
    /\ disk = <<>>
    /\ objects = <<>>
    /\ mq_channel = "open"
    /\ queue = <<>>
    /\ req = [s \in Slots |-> Idle]
    /\ response = NoResponse
    /\ queue_args = "undeclared"
    /\ wpc = "start"
    /\ cur = None
    /\ next_tag = 1
    /\ settled = {}
    /\ handled = {}
    /\ dead_letter = {}
    /\ discarded = {}
    /\ stop_signal = FALSE

ListNext ==
    \/ \E page \in 1..MaxPage, per_page \in 1..MaxPerPage :
          ListDocuments(page, per_page)
    \/ ResponseSent

ListSpec == ListInit /\ [][ListNext]_vars

----------------------------------------------------------------------------
(* Properties of list_documents (ListSpec) *)

\* pos (counted from 0) is a place where d can stand when the collection is
\* listed by upload_timestamp descending.
SortedPosition(d, pos) ==
    /\ Cardinality({e \in documents : e.upload_timestamp > d.upload_timestamp}) <= pos
    /\ pos < Cardinality({e \in documents : e.upload_timestamp >= d.upload_timestamp})

\* What the pages p..last hold, one after the other.
RECURSIVE PagesFrom(_, _, _)
PagesFrom(p, last, per_page) ==
    IF p > last THEN <<>>
    ELSE list_documents(documents, p, per_page).documents
            \o PagesFrom(p + 1, last, per_page)

\* C14: a listing reports total = N, holds the records at positions
\* (page-1)*per_page .. page*per_page - 1 of the collection in descending
\* upload_timestamp (nothing beyond the end), reports total_pages =
\* ceil(N / per_page) -- 3 pages and 5 records on page 3 for N = 25 and
\* per_page = 10 -- and the pages 1..total_pages hold every record exactly once.
C14_Pagination ==
    (response.op = "list") =>
        LET N == Cardinality(documents)
            docs == response.documents
            per_page == response.per_page
            total_pages == response.total_pages
            offset == (response.page - 1) * per_page
            all == PagesFrom(1, total_pages, per_page)
        IN  /\ response.total = N
            /\ Len(docs) = IF offset >= N THEN 0
                            ELSE IF N - offset < per_page THEN N - offset
                            ELSE per_page
            /\ \A i \in 1..Len(docs) :
                  docs[i] \in documents /\ SortedPosition(docs[i], offset + i - 1)
            /\ N <= total_pages * per_page
            /\ total_pages * per_page < N + per_page
            /\ (N = 25 /\ per_page = 10)
                  => (total_pages = 3 /\ (response.page = 3 => Len(docs) = 5))
            /\ Len(all) = N
            /\ {all[i] : i \in 1..Len(all)} = documents

C14_Witness ==
    /\ response.op = "list"
    /\ response.total = 25 /\ response.per_page = 10 /\ response.page = 3
    /\ response.total_pages = 3 /\ Len(response.documents) = 5
    /\ \E d, e \in documents : d # e /\ d.upload_timestamp = e.upload_timestamp

----------------------------------------------------------------------------
(* The worker next to the stores of the API process *)

\* The stores after one upload of a.JSON was accepted, stored and inserted.
StoredObject == put_object(<<>>, ObjectName(1, "a.JSON"), JsonAB, "ok")
StoredFile == save_file(<<>>, 1, "a.JSON", JsonAB, TRUE)
StoredRecord ==
    DocumentMetadata(1, "a.JSON", JsonAB, "application/json",
                     StorageFields(StoredObject, ObjectName(1, "a.JSON")),
                     process_file_content("a.JSON", JsonAB).fields)

\* After that upload: its event is on the queue that connect_to_rabbitmq
\* declared, or the broker was not reachable and nothing was published.
RedeliveryInit ==
    /\ documents = {StoredRecord}
    /\ disk = StoredFile.files
    /\ objects = StoredObject.bucket
    /\ \/ mq_channel = "open" /\ queue_args = "plain" /\ queue = <<UploadedEvent>>
       \/ mq_channel = "None" /\ queue_args = "undeclared" /\ queue = <<>>
    /\ req = [s \in Slots |-> Idle]
    /\ response = NoResponse
    /\ wpc = "start"
    /\ cur = None
    /\ next_tag = 1
    /\ settled = {}
    /\ handled = {}
    /\ dead_letter = {}
    /\ discarded = {}
    /\ stop_signal = FALSE

RedeliverySpec == RedeliveryInit /\ [][WorkerNext]_vars

\* C15: whatever the worker is delivered, and however often the same event is
\* delivered, the collection, the upload directory and the bucket stay as the
\* upload left them: no step of the worker writes to any of them.
C15_WorkerWritesNothing ==
    /\ [](documents = {StoredRecord} /\ disk = StoredFile.files
            /\ objects = StoredObject.bucket)
    /\ [][UNCHANGED <<documents, disk, objects>>]_vars

C15_Witness ==
    /\ \E x, y \in settled :
          /\ x.body = UploadedEvent /\ y.body = UploadedEvent
          /\ x.delivery_tag # y.delivery_tag
          /\ x.op = "ack" /\ y.op = "ack"
    /\ StoredRecord \in documents
    /\ StoredRecord.file_path \in DOMAIN disk
    /\ StoredRecord.storage_key[1] \in DOMAIN objects

----------------------------------------------------------------------------
(* Properties of the event publication (Spec) *)

Count(trace, steps) == Cardinality({i \in 1..Len(trace) : trace[i] \in steps})

C16_OnlyPublishedAfterInsert ==
    UploadResponse =>
        /\ Count(response.trace, {"publish_event", "publish_event!"}) <= 1
        /\ InTrace(response.trace, "publish_event")
              => /\ response.status = 200
                 /\ \E i, j \in 1..Len(response.trace) :
                       /\ i < j
                       /\ response.trace[i] = "insert_one"
                       /\ response.trace[j] = "publish_event"
        /\ response.status # 200
              => ~InTrace(response.trace, "publish_event")

C16_PublishStep ==
    (queue' # queue) =>
        \E s \in Slots :
            /\ req[s].op = "upload" /\ req[s].pc = "publish"
            /\ InTrace(req[s].trace, "insert_one")
            /\ ~InTrace(req[s].trace, "publish_event")
            /\ queue' = Append(queue, EncodeEvent("document.uploaded",
                                   [document_id |-> req[s].doc[1].document_id]))
            /\ req'[s] = Idle

\* C16: the queue gets a document.uploaded event only in the step of an upload
\* that has inserted its record, the event carries that record's document_id, and
\* the request ends with that step, so it publishes at most once; an upload that
\* was rejected or failed up to and including the insert publishes nothing.
C16_PublishedAfterInsert ==
    /\ []C16_OnlyPublishedAfterInsert
    /\ [][C16_PublishStep]_vars

C16_Witness ==
    /\ UploadResponse /\ response.status = 200
    /\ response.trace = <<"save_file", "process_file_content", "put_object",
                          "insert_one", "publish_event">>
    /\ queue = <<EncodeEvent("document.uploaded",
                             [document_id |-> response.document_id[1]])>>

----------------------------------------------------------------------------
(* Properties of the two writes of an upload (Spec) *)

\* The traces of the uploads: the ones in flight and the one just answered.
UploadTraces ==
    {req[s].trace : s \in {x \in Slots : req[x].op = "upload"}}
        \cup (IF UploadResponse THEN {response.trace} ELSE {})

C17_DiskFirst ==
    \A t \in UploadTraces :
        /\ \A j \in 1..Len(t) :
              t[j] \in {"put_object", "put_object!"}
                  => \E i \in 1..(j - 1) : t[i] = "save_file"
        /\ InTrace(t, "save_file!") => t = <<"save_file!">>

\* A step of an upload: a request of an upload moves, or an upload is answered.
UploadStep ==
    \/ \E s \in Slots : (req[s].op = "upload" \/ req'[s].op = "upload")
                           /\ req'[s] # req[s]
    \/ response = NoResponse /\ response'.op = "upload"

C17_NoRollback ==
    UploadStep =>
        /\ DOMAIN disk \subseteq DOMAIN disk'
        /\ DOMAIN objects \subseteq DOMAIN objects'
        /\ \A s \in Slots :
              (req[s].pc = "idle" /\ req'[s].pc = "insert") =>
                  LET d == req'[s].doc[1] IN
                  /\ d.file_path \in DOMAIN disk'
                  /\ InTrace(req'[s].trace, "put_object")
                        => ObjectName(d.document_id, d.filename) \in DOMAIN objects'
        /\ (response = NoResponse /\ response'.op = "upload"
                /\ InTrace(response'.trace, "save_file"))
              => /\ \/ response'.trace = <<"save_file", "process_file_content!">>
                       /\ FilePath(response'.document_id[1], response'.filename)
                              \in DOMAIN disk'
                    \/ disk' = disk /\ objects' = objects

\* C17: in every upload put_object comes after a save_file that succeeded and is
\* never attempted after a save_file that failed; no step of an upload removes a
\* file or an object: after a failed extraction the local file is there, after a
\* failed put_object the request goes on with the local file in place, and a
\* refused insert leaves the directory and the bucket as they are.
C17_DiskThenStoreNoRollback ==
    /\ []C17_DiskFirst
    /\ [][C17_NoRollback]_vars

C17_Witness ==
    /\ UploadResponse /\ response.status = 500 /\ response.detail = "insert_one"
    /\ InTrace(response.trace, "put_object")
    /\ FilePath(response.document_id[1], response.filename) \in DOMAIN disk
    /\ ObjectName(response.document_id[1], response.filename) \in DOMAIN objects

----------------------------------------------------------------------------
(* Properties of a failed upload towards the stored records (Spec) *)

C18_RecordsKept ==
    (response = NoResponse /\ response'.op = "upload" /\ response'.status # 200)
        => documents' = documents

\* C18 as claimed: an upload answered with an error has put other bytes over no
\* local file and no object that a stored record keeps its content in, and the
\* step that answers it leaves the collection as it is.
C18_AsClaimed ==
    /\ []((UploadResponse /\ response.status # 200) => response.replaced = {})
    /\ [][C18_RecordsKept]_vars

----------------------------------------------------------------------------
(* Properties of concurrent delete_document calls (Spec) *)

C19_RemovedOnce ==
    \A s \in Slots :
        Leaves(s, "delete_one") =>
            LET document_id == req[s].doc[1].document_id IN
            /\ response'.ok <=> HasRecord(documents, document_id)
            /\ response'.ok
                  => /\ documents' \subseteq documents
                     /\ Cardinality(documents') = Cardinality(documents) - 1
            /\ ~response'.ok => documents' = documents

C19_NoneRaises ==
    /\ response.op = "delete" => response.status = 0
    /\ \A s \in Slots : req[s].op = "delete" => req[s].pc \in {"cleanup", "delete_one"}

\* C19: of the delete_document calls that found the same record and are
\* suspended at their awaits, a call returns True exactly when its own delete_one
\* removes a record, which takes exactly one record out of the collection; a
\* call that finds the record, the object or the file gone returns False and
\* none ends with an error.
C19_ConcurrentDeletes ==
    /\ []C19_NoneRaises
    /\ [][C19_RemovedOnce]_vars

C19_Witness ==
    /\ response.op = "delete" /\ ~response.ok /\ response.detail = "delete_one"
    /\ documents = {}
    /\ \A s \in Slots : req[s].pc = "idle"

====
